---- MODULE Spec2Model ----
(***************************************************************************)
(* Model of package cgroupv2 (hromov/cgroupv2): a Monitor that reads the   *)
(* cgroup v2 files cpu.max, cpu.stat, memory.max and memory.current and    *)
(* turns them into percentages of the configured limits.                   *)
(*                                                                         *)
(* Text is modelled as a sequence of items: a token (an integer literal,   *)
(* the word "max", the word "usage_usec", any other word) or a separator   *)
(* (a space, a tab, a newline).  Tokens in a text are always separated by  *)
(* at least one separator.  float64 values are modelled as extended        *)
(* rationals n/d with d >= 0: 1/0 is +Inf, -1/0 is -Inf and 0/0 is NaN;    *)
(* rounding of the mantissa is not modelled.                               *)
(***************************************************************************)
EXTENDS Integers, Sequences, FiniteSets, TLC

\* ---------------------------------------------------------------- bounds
MaxTicks == 2          \* the clock is advanced at most this many times
TickNanos == 500       \* nanoseconds added to the clock by one tick
MaxUsage == 2          \* largest usage_usec value written to cpu.stat
MaxLines == 3          \* largest number of lines of a cpu.stat text given to the parser
NThreads == 2          \* goroutines of the concurrent specification
MaxConcTicks == 1      \* clock advances in the concurrent specification

\* ------------------------------------------------------ program constants
NanosPerMicro == 1000  \* time.Microsecond, used by Duration.Microseconds()
ZeroTime == 0 - 1      \* the zero time.Time of a new Monitor

\* ------------------------------------------------------------------ text
Tok(k, v) == [k |-> k, v |-> v]
Num(n) == Tok("int", n)
MaxW == Tok("max", 0)
KeyW == Tok("key", 0)      \* the word usage_usec
Word == Tok("bad", 0)      \* any other word
SP == Tok("sp", 0)
TAB == Tok("tab", 0)
NL == Tok("nl", 0)

unlimitedValue == <<MaxW>>

IsSpace(it) == it.k \in {"sp", "tab", "nl"}

RECURSIVE TrimLeft(_)
TrimLeft(s) == IF s # <<>> /\ IsSpace(Head(s)) THEN TrimLeft(Tail(s)) ELSE s

RECURSIVE TrimRight(_)
TrimRight(s) ==
  IF s # <<>> /\ IsSpace(s[Len(s)]) THEN TrimRight(SubSeq(s, 1, Len(s) - 1)) ELSE s

TrimSpace(s) == TrimRight(TrimLeft(s))

\* a file is [err |-> TRUE] (cannot be read) or [err |-> FALSE, data |-> text]
NoFile == [err |-> TRUE, data |-> <<>>]
File(text) == [err |-> FALSE, data |-> text]

readFile(f) == IF f.err THEN [s |-> <<>>, err |-> TRUE]
               ELSE [s |-> TrimSpace(f.data), err |-> FALSE]

\* strings.Fields: the maximal runs of non-space items, each as a string
Fields(s) ==
  LET toks == SelectSeq(s, LAMBDA it : ~IsSpace(it))
  IN  [i \in 1..Len(toks) |-> <<toks[i]>>]

\* strings.Split(content, "\n")
RECURSIVE Split(_)
Split(s) ==
  IF \E i \in 1..Len(s) : s[i] = NL
  THEN LET i == CHOOSE j \in 1..Len(s) : s[j] = NL /\ \A h \in 1..(j - 1) : s[h] # NL
       IN  <<SubSeq(s, 1, i - 1)>> \o Split(SubSeq(s, i + 1, Len(s)))
  ELSE <<s>>

\* strings.HasPrefix(line, "usage_usec ")
HasUsagePrefix(line) == Len(line) >= 2 /\ line[1] = KeyW /\ line[2] = SP

parseInt64(s) ==
  IF Len(s) = 1 /\ s[1].k = "int" THEN [val |-> s[1].v, err |-> FALSE]
  ELSE [val |-> 0, err |-> TRUE]

parseUint64(s) ==
  IF Len(s) = 1 /\ s[1].k = "int" /\ s[1].v >= 0 THEN [val |-> s[1].v, err |-> FALSE]
  ELSE [val |-> 0, err |-> TRUE]

\* --------------------------------------------------------------- float64
RECURSIVE GCD(_, _)
GCD(a, b) == IF b = 0 THEN a ELSE GCD(b, a % b)

Abs(x) == IF x < 0 THEN 0 - x ELSE x
Sgn(x) == IF x < 0 THEN 0 - 1 ELSE IF x > 0 THEN 1 ELSE 0

\* n/d with d >= 0, in lowest terms
Norm(n, d) ==
  IF d = 0 THEN [n |-> Sgn(n), d |-> 0]
  ELSE LET g == GCD(Abs(n), d) IN [n |-> n \div g, d |-> d \div g]

F(i) == [n |-> i, d |-> 1]
Zero == F(0)
PosInf == [n |-> 1, d |-> 0]
NaN == [n |-> 0, d |-> 0]
IsNaN(x) == x.n = 0 /\ x.d = 0
IsFinite(x) == x.d # 0

FDiv(a, b) ==
  IF IsNaN(a) \/ IsNaN(b) THEN NaN
  ELSE LET s == IF b.n < 0 THEN 0 - 1 ELSE 1
       IN  Norm(a.n * b.d * s, a.d * b.n * s)

FMul(a, b) == IF IsNaN(a) \/ IsNaN(b) THEN NaN ELSE Norm(a.n * b.n, a.d * b.d)

FLess(a, b) == ~IsNaN(a) /\ ~IsNaN(b) /\ a # b /\
  (IF a.d = 0 THEN a.n < 0
   ELSE IF b.d = 0 THEN b.n > 0
   ELSE a.n * b.d < b.n * a.d)
\* ----------------------------------------------------------- cpu.go
\* readCPULimit without the check of a zero period (line 36)
readCPULimit_noPeriodCheck(cpuMaxFile) ==
  LET r == readFile(cpuMaxFile)
      parts == Fields(r.s)
      quota == parseInt64(parts[1])
      period == parseInt64(parts[2])
      early(e) == [done |-> TRUE, percent |-> Zero, limit |-> Zero, err |-> e]
  IN  IF r.err THEN early(TRUE)
      ELSE IF Len(parts) # 2 THEN early(FALSE)
      ELSE IF parts[1] = unlimitedValue THEN early(FALSE)
      ELSE IF quota.err \/ quota.val <= 0 THEN early(FALSE)
      ELSE IF period.err THEN early(FALSE)
      ELSE [done |-> FALSE, percent |-> Zero,
            limit |-> FDiv(F(quota.val), F(period.val)), err |-> FALSE]

\* readCPULimit dividing the integers (quota / period before the conversion)
readCPULimit_intDiv(cpuMaxFile) ==
  LET r == readFile(cpuMaxFile)
      parts == Fields(r.s)
      quota == parseInt64(parts[1])
      period == parseInt64(parts[2])
      early(e) == [done |-> TRUE, percent |-> Zero, limit |-> Zero, err |-> e]
  IN  IF r.err THEN early(TRUE)
      ELSE IF Len(parts) # 2 THEN early(FALSE)
      ELSE IF parts[1] = unlimitedValue THEN early(FALSE)
      ELSE IF quota.err \/ quota.val <= 0 THEN early(FALSE)
      ELSE IF period.err THEN early(FALSE)
      ELSE IF period.val = 0 THEN early(FALSE)
      ELSE [done |-> FALSE, percent |-> Zero,
            limit |-> F(quota.val \div period.val), err |-> FALSE]

\* readCPU, lines 12-40: the limit read from cpu.max.  done means readCPU
\* returns here with (percent, limit, err); otherwise limit is cpuLimitCores.
readCPULimit(cpuMaxFile) ==
  LET r == readFile(cpuMaxFile)
      parts == Fields(r.s)
      quota == parseInt64(parts[1])
      period == parseInt64(parts[2])
      early(e) == [done |-> TRUE, percent |-> Zero, limit |-> Zero, err |-> e]
  IN  IF r.err THEN early(TRUE)
      ELSE IF Len(parts) # 2 THEN early(FALSE)
      ELSE IF parts[1] = unlimitedValue THEN early(FALSE)
      ELSE IF quota.err \/ quota.val <= 0 THEN early(FALSE)
      ELSE IF period.err THEN early(FALSE)
      ELSE IF period.val = 0 THEN early(FALSE)
      ELSE [done |-> FALSE, percent |-> Zero,
            limit |-> FDiv(F(quota.val), F(period.val)), err |-> FALSE]

\* parseCPUStatUsage looking at the first line only
parseCPUStatUsage_firstLine(content) ==
  LET line == Head(Split(content))
      parts == Fields(line)
      val == parseUint64(parts[2])
  IN  IF ~HasUsagePrefix(line) THEN 0
      ELSE IF Len(parts) # 2 THEN 0
      ELSE IF val.err THEN 0
      ELSE val.val

RECURSIVE usageOfLines(_)
usageOfLines(lines) ==
  IF lines = <<>> THEN 0
  ELSE LET line == Head(lines)
           parts == Fields(line)
           val == parseUint64(parts[2])
       IN  IF ~HasUsagePrefix(line) THEN usageOfLines(Tail(lines))
           ELSE IF Len(parts) # 2 THEN usageOfLines(Tail(lines))
           ELSE IF val.err THEN usageOfLines(Tail(lines))
           ELSE val.val

parseCPUStatUsage(content) == usageOfLines(Split(content))

\* time.Duration.Microseconds() of a non-negative duration in nanoseconds
Microseconds(d) == d \div NanosPerMicro

\* The session fields of a Monitor
Session(u, t, b) == [lastCPUUsageUsec |-> u, lastCPUSampleTime |-> t, hasBaseline |-> b]

\* baselineBranch without the assignment of hasBaseline (line 54)
baselineBranch_noFlag(usageUsec, now, cpuLimitCores) ==
  [percent |-> Zero, limit |-> cpuLimitCores, err |-> FALSE,
   writes |-> << <<"lastCPUUsageUsec", usageUsec>>, <<"lastCPUSampleTime", now>> >>]

\* readCPU, lines 50-56: first sample.  writes is the list of assignments
\* to the Monitor's fields, in program order.
baselineBranch(usageUsec, now, cpuLimitCores) ==
  [percent |-> Zero, limit |-> cpuLimitCores, err |-> FALSE,
   writes |-> << <<"lastCPUUsageUsec", usageUsec>>, <<"lastCPUSampleTime", now>>,
                 <<"hasBaseline", TRUE>> >>]

\* resetBranch that returns 0 and keeps the stored counter (line 60 missing)
resetBranch_keepsOld(usageUsec, now, cpuLimitCores) ==
  [percent |-> Zero, limit |-> cpuLimitCores, err |-> FALSE,
   writes |-> << <<"lastCPUSampleTime", now>> >>]

\* resetBranch that asks for a new baseline by clearing hasBaseline
resetBranch_clearsFlag(usageUsec, now, cpuLimitCores) ==
  [percent |-> Zero, limit |-> cpuLimitCores, err |-> FALSE,
   writes |-> << <<"lastCPUUsageUsec", usageUsec>>, <<"lastCPUSampleTime", now>>,
                 <<"hasBaseline", FALSE>> >>]

\* readCPU, lines 58-63: counter reset
resetBranch(usageUsec, now, cpuLimitCores) ==
  [percent |-> Zero, limit |-> cpuLimitCores, err |-> FALSE,
   writes |-> << <<"lastCPUUsageUsec", usageUsec>>, <<"lastCPUSampleTime", now>> >>]

\* deltaBranch that stores the new counter and keeps the old time (line 77 missing)
deltaBranch_usageOnly(m, usageUsec, now, cpuLimitCores) ==
  LET usageDelta == F(usageUsec - m.lastCPUUsageUsec)
      timeDelta == now - m.lastCPUSampleTime
      elapsedUsec == F(Microseconds(timeDelta))
      coresUsed == FDiv(usageDelta, elapsedUsec)
      cpuPercent == FMul(FDiv(coresUsed, cpuLimitCores), F(100))
  IN  IF timeDelta = 0
      THEN [percent |-> Zero, limit |-> cpuLimitCores, err |-> FALSE, writes |-> <<>>]
      ELSE [percent |-> cpuPercent, limit |-> cpuLimitCores, err |-> FALSE,
            writes |-> << <<"lastCPUUsageUsec", usageUsec>> >>]

\* readCPU, lines 65-79: the delta computation
deltaBranch(m, usageUsec, now, cpuLimitCores) ==
  LET usageDelta == F(usageUsec - m.lastCPUUsageUsec)
      timeDelta == now - m.lastCPUSampleTime
      elapsedUsec == F(Microseconds(timeDelta))
      coresUsed == FDiv(usageDelta, elapsedUsec)
      cpuPercent == FMul(FDiv(coresUsed, cpuLimitCores), F(100))
  IN  IF timeDelta = 0
      THEN [percent |-> Zero, limit |-> cpuLimitCores, err |-> FALSE, writes |-> <<>>]
      ELSE [percent |-> cpuPercent, limit |-> cpuLimitCores, err |-> FALSE,
            writes |-> << <<"lastCPUUsageUsec", usageUsec>>,
                          <<"lastCPUSampleTime", now>> >>]

\* sampleCPU without the first-sample case: the first sample is measured
\* from the zero fields of the new Monitor
sampleCPU_noBaseline(m, usageUsec, now, cpuLimitCores) ==
  LET r == IF usageUsec < m.lastCPUUsageUsec
           THEN resetBranch(usageUsec, now, cpuLimitCores)
           ELSE deltaBranch(m, usageUsec, now, cpuLimitCores)
  IN  IF m.hasBaseline THEN r
      ELSE [r EXCEPT !.writes = << <<"lastCPUUsageUsec", usageUsec>>,
                                   <<"lastCPUSampleTime", now>>,
                                   <<"hasBaseline", TRUE>> >>]

\* readCPU, lines 50-79
sampleCPU(m, usageUsec, now, cpuLimitCores) ==
  IF ~m.hasBaseline THEN baselineBranch(usageUsec, now, cpuLimitCores)
  ELSE IF usageUsec < m.lastCPUUsageUsec THEN resetBranch(usageUsec, now, cpuLimitCores)
  ELSE deltaBranch(m, usageUsec, now, cpuLimitCores)

RECURSIVE applyWrites(_, _)
applyWrites(m, writes) ==
  IF writes = <<>> THEN m
  ELSE applyWrites([m EXCEPT ![Head(writes)[1]] = Head(writes)[2]], Tail(writes))

\* readCPU forgetting the stored sample when cpu.stat cannot be read
readCPU_resetsOnError(m, cpuMaxFile, cpuStatFile, now) ==
  LET lim == readCPULimit(cpuMaxFile)
      st == readFile(cpuStatFile)
      usageUsec == parseCPUStatUsage(st.s)
      r == sampleCPU(m, usageUsec, now, lim.limit)
  IN  IF lim.done
      THEN [percent |-> lim.percent, limit |-> lim.limit, err |-> lim.err,
            sampled |-> FALSE, usage |-> 0, m |-> m]
      ELSE IF st.err
      THEN [percent |-> Zero, limit |-> lim.limit, err |-> TRUE,
            sampled |-> FALSE, usage |-> 0, m |-> Session(0, ZeroTime, FALSE)]
      ELSE [percent |-> r.percent, limit |-> r.limit, err |-> r.err,
            sampled |-> TRUE, usage |-> usageUsec, m |-> applyWrites(m, r.writes)]

\* readCPU as a whole.  sampled: the call reached line 47; usage: usageUsec.
readCPU(m, cpuMaxFile, cpuStatFile, now) ==
  LET lim == readCPULimit(cpuMaxFile)
      st == readFile(cpuStatFile)
      usageUsec == parseCPUStatUsage(st.s)
      r == sampleCPU(m, usageUsec, now, lim.limit)
  IN  IF lim.done
      THEN [percent |-> lim.percent, limit |-> lim.limit, err |-> lim.err,
            sampled |-> FALSE, usage |-> 0, m |-> m]
      ELSE IF st.err
      THEN [percent |-> Zero, limit |-> lim.limit, err |-> TRUE,
            sampled |-> FALSE, usage |-> 0, m |-> m]
      ELSE [percent |-> r.percent, limit |-> r.limit, err |-> r.err,
            sampled |-> TRUE, usage |-> usageUsec, m |-> applyWrites(m, r.writes)]

\* readMemory returning the ratio usage / limit, not multiplied by 100
readMemory_ratio(memMaxFile, memCurFile) ==
  LET memMax == readFile(memMaxFile)
      memLimit == parseUint64(memMax.s)
      memCurrent == readFile(memCurFile)
      memBytes == parseUint64(memCurrent.s)
      memPercent == FDiv(F(memBytes.val), F(memLimit.val))
      res(p, b, l, e) == [percent |-> p, bytes |-> b, limit |-> l, err |-> e]
  IN  IF memMax.err THEN res(Zero, 0, 0, TRUE)
      ELSE IF memMax.s = unlimitedValue THEN res(Zero, 0, 0, FALSE)
      ELSE IF memLimit.err THEN res(Zero, 0, 0, FALSE)
      ELSE IF memCurrent.err THEN res(Zero, 0, memLimit.val, TRUE)
      ELSE IF memBytes.err THEN res(Zero, 0, memLimit.val, FALSE)
      ELSE res(memPercent, memBytes.val, memLimit.val, FALSE)

\* readMemory reporting an unparsable limit as a failure
readMemory_limitErr(memMaxFile, memCurFile) ==
  LET memMax == readFile(memMaxFile)
      memLimit == parseUint64(memMax.s)
      memCurrent == readFile(memCurFile)
      memBytes == parseUint64(memCurrent.s)
      memPercent == FMul(FDiv(F(memBytes.val), F(memLimit.val)), F(100))
      res(p, b, l, e) == [percent |-> p, bytes |-> b, limit |-> l, err |-> e]
  IN  IF memMax.err THEN res(Zero, 0, 0, TRUE)
      ELSE IF memMax.s = unlimitedValue THEN res(Zero, 0, 0, FALSE)
      ELSE IF memLimit.err THEN res(Zero, 0, 0, TRUE)
      ELSE IF memCurrent.err THEN res(Zero, 0, memLimit.val, TRUE)
      ELSE IF memBytes.err THEN res(Zero, 0, memLimit.val, FALSE)
      ELSE res(memPercent, memBytes.val, memLimit.val, FALSE)

\* readMemory dropping the parsed limit when memory.current fails
readMemory_dropsLimit(memMaxFile, memCurFile) ==
  LET memMax == readFile(memMaxFile)
      memLimit == parseUint64(memMax.s)
      memCurrent == readFile(memCurFile)
      memBytes == parseUint64(memCurrent.s)
      memPercent == FMul(FDiv(F(memBytes.val), F(memLimit.val)), F(100))
      res(p, b, l, e) == [percent |-> p, bytes |-> b, limit |-> l, err |-> e]
  IN  IF memMax.err THEN res(Zero, 0, 0, TRUE)
      ELSE IF memMax.s = unlimitedValue THEN res(Zero, 0, 0, FALSE)
      ELSE IF memLimit.err THEN res(Zero, 0, 0, FALSE)
      ELSE IF memCurrent.err THEN res(Zero, 0, 0, TRUE)
      ELSE IF memBytes.err THEN res(Zero, 0, memLimit.val, FALSE)
      ELSE res(memPercent, memBytes.val, memLimit.val, FALSE)

\* -------------------------------------------------------- readMemory
readMemory(memMaxFile, memCurFile) ==
  LET memMax == readFile(memMaxFile)
      memLimit == parseUint64(memMax.s)
      memCurrent == readFile(memCurFile)
      memBytes == parseUint64(memCurrent.s)
      memPercent == FMul(FDiv(F(memBytes.val), F(memLimit.val)), F(100))
      res(p, b, l, e) == [percent |-> p, bytes |-> b, limit |-> l, err |-> e]
  IN  IF memMax.err THEN res(Zero, 0, 0, TRUE)
      ELSE IF memMax.s = unlimitedValue THEN res(Zero, 0, 0, FALSE)
      ELSE IF memLimit.err THEN res(Zero, 0, 0, FALSE)
      ELSE IF memCurrent.err THEN res(Zero, 0, memLimit.val, TRUE)
      ELSE IF memBytes.err THEN res(Zero, 0, memLimit.val, FALSE)
      ELSE res(memPercent, memBytes.val, memLimit.val, FALSE)
\* ------------------------------------------------------------ the files
CpuMaxValid == { File(<<Num(1), SP, Num(2)>>),          \* 0.5 cores
                 File(<<Num(2), SP, Num(1), NL>>),      \* 2 cores
                 File(<<Num(1), SP, Num(0 - 2)>>) }     \* negative period
CpuMaxNoLimit == { File(<<Num(1)>>),                    \* one token
                   File(<<MaxW, SP, Num(2)>>),
                   File(<<MaxW, SP, Num(0)>>),
                   File(<<Word, SP, Num(2)>>),
                   File(<<Num(0), SP, Num(2)>>),
                   File(<<Num(0 - 1), SP, Num(2)>>),
                   File(<<Num(1), SP, Word>>),
                   File(<<Num(1), SP, Num(0)>>) }
CpuMaxContents == {NoFile} \cup CpuMaxValid \cup CpuMaxNoLimit

CpuStatContents ==
  {NoFile, File(<<Word, SP, Num(1)>>)}
  \cup { File(<<KeyW, SP, Num(u)>>) : u \in 0..(MaxUsage - 1) }
  \cup { File(<<Word, SP, Num(0), NL, KeyW, SP, Num(MaxUsage), NL>>) }

MemMaxContents == { NoFile, File(<<MaxW, NL>>), File(<<Word>>), File(<<Num(0 - 1)>>),
                    File(<<Num(0)>>),
                    File(<<Num(2), NL>>), File(<<Num(4)>>) }
MemCurContents == { NoFile, File(<<Word>>), File(<<Num(0)>>), File(<<Num(1), NL>>),
                    File(<<Num(2)>>) }

\* the single contents used where a specification does not vary a file
CpuMaxFew == { File(<<Num(1), SP, Num(2)>>) }
CpuStatFew == { File(<<KeyW, SP, Num(1)>>), NoFile }
MemMaxFew == { File(<<Num(2), NL>>) }
MemCurFew == { File(<<Num(1), NL>>) }

\* ---------------------------------------------------------------- state
VARIABLES
  lastCPUUsageUsec,   \* Monitor.lastCPUUsageUsec
  lastCPUSampleTime,  \* Monitor.lastCPUSampleTime, in nanoseconds
  hasBaseline,        \* Monitor.hasBaseline
  mu,                 \* Monitor.mu: 0 when unlocked, else the goroutine holding it
  clock,              \* the monotonic clock read by time.Now(), in nanoseconds
  ticks,              \* number of clock advances so far
  ret,                \* one caller: what its last call read and returned
  pc,                 \* per goroutine: position inside the call it is making
  loc,                \* per goroutine: the locals of the call it is making
  everSampled,        \* history: some readCPU reached the sample (line 47)
  okRead,             \* history: some readCPU returned a nil error
  recorded            \* history: the (usage, now) of the last sample that stored its pair

vars == <<lastCPUUsageUsec, lastCPUSampleTime, hasBaseline, mu, clock, ticks, ret, pc,
          loc, everSampled, okRead, recorded>>

Threads == 1..NThreads

monitor == Session(lastCPUUsageUsec, lastCPUSampleTime, hasBaseline)

ZeroStats == [CPUPercent |-> Zero, MemoryPercent |-> Zero, MemoryBytes |-> 0,
              MemoryLimitBytes |-> 0, CPULimitCores |-> Zero]

NoCPU == [percent |-> Zero, limit |-> Zero, err |-> FALSE, sampled |-> FALSE, usage |-> 0]
NoMem == [percent |-> Zero, bytes |-> 0, limit |-> 0, err |-> FALSE]

NoRet == [op |-> "none", cpuMax |-> NoFile, cpuStat |-> NoFile, memMax |-> NoFile,
          memCur |-> NoFile, now |-> 0, prev |-> Session(0, ZeroTime, FALSE),
          cpu |-> NoCPU, mem |-> NoMem, stats |-> ZeroStats, pct |-> Zero]

NoLoc == [op |-> "none", cpuMax |-> NoFile, cpuStat |-> NoFile, memMax |-> NoFile,
          memCur |-> NoFile, now |-> 0, prev |-> Session(0, ZeroTime, FALSE),
          cpu |-> NoCPU, mem |-> NoMem, writes |-> <<>>]

\* NewMonitor
Init ==
  /\ lastCPUUsageUsec = 0
  /\ lastCPUSampleTime = ZeroTime
  /\ hasBaseline = FALSE
  /\ mu = 0
  /\ clock = 0
  /\ ticks = 0
  /\ ret = NoRet
  /\ pc = [t \in Threads |-> "idle"]
  /\ loc = [t \in Threads |-> NoLoc]
  /\ everSampled = FALSE
  /\ okRead = FALSE
  /\ recorded = <<0, ZeroTime>>

\* time passes
Tick ==
  /\ ticks < MaxTicks
  /\ ticks' = ticks + 1
  /\ clock' = clock + TickNanos
  /\ UNCHANGED <<lastCPUUsageUsec, lastCPUSampleTime, hasBaseline, mu, ret, pc, loc, everSampled, okRead, recorded>>

cpuPart(r) == [percent |-> r.percent, limit |-> r.limit, err |-> r.err,
               sampled |-> r.sampled, usage |-> r.usage]

\* the effect of one readCPU on the Monitor and on the history variables
storeCPU(r) ==
  /\ lastCPUUsageUsec' = r.m.lastCPUUsageUsec
  /\ lastCPUSampleTime' = r.m.lastCPUSampleTime
  /\ hasBaseline' = r.m.hasBaseline
  /\ everSampled' = (everSampled \/ r.sampled)
  /\ okRead' = (okRead \/ ~r.err)
  /\ recorded' = IF r.m # monitor THEN <<r.usage, clock>> ELSE recorded

\* ---------------------------------------- calls made one after another
\* Monitor.Stats, called while no other call is in progress
Stats(CM, CS, MM, MC) ==
  \E cm \in CM, cs \in CS, mm \in MM, mc \in MC :
    LET r == readCPU(monitor, cm, cs, clock)
        mem == readMemory(mm, mc)
    IN  /\ mu = 0
        /\ storeCPU(r)
        /\ ret' =
              [op |-> "Stats", cpuMax |-> cm, cpuStat |-> cs, memMax |-> mm, memCur |-> mc,
               now |-> clock, prev |-> monitor, cpu |-> cpuPart(r), mem |-> mem,
               stats |-> [CPUPercent |-> r.percent, CPULimitCores |-> r.limit,
                          MemoryPercent |-> mem.percent, MemoryBytes |-> mem.bytes,
                          MemoryLimitBytes |-> mem.limit],
               pct |-> Zero]
        /\ UNCHANGED <<mu, clock, ticks, pc, loc>>

\* Monitor.CPUPercent, called while no other call is in progress
CPUPercent(CM, CS) ==
  \E cm \in CM, cs \in CS :
    LET r == readCPU(monitor, cm, cs, clock)
    IN  /\ mu = 0
        /\ storeCPU(r)
        /\ ret' =
              [NoRet EXCEPT !.op = "CPUPercent", !.cpuMax = cm, !.cpuStat = cs,
                            !.now = clock, !.prev = monitor, !.cpu = cpuPart(r),
                            !.pct = r.percent]
        /\ UNCHANGED <<mu, clock, ticks, pc, loc>>

\* Monitor.MemoryPercent
MemoryPercent(MM, MC) ==
  \E mm \in MM, mc \in MC :
    LET mem == readMemory(mm, mc)
    IN  /\ ret' =
              [NoRet EXCEPT !.op = "MemoryPercent", !.memMax = mm, !.memCur = mc,
                            !.now = clock, !.prev = monitor, !.mem = mem,
                            !.pct = mem.percent]
        /\ UNCHANGED <<lastCPUUsageUsec, lastCPUSampleTime, hasBaseline, mu, clock, ticks,
                       pc, loc, everSampled, okRead, recorded>>

\* one caller, every content of the CPU files
Next ==
  \/ Tick
  \/ Stats(CpuMaxContents, CpuStatContents, MemMaxFew, MemCurFew)
  \/ CPUPercent(CpuMaxContents, CpuStatContents)
  \/ MemoryPercent(MemMaxFew, MemCurFew)

Spec == Init /\ [][Next]_vars

\* one caller, every content of the memory files
NextMem ==
  \/ Tick
  \/ Stats(CpuMaxFew, CpuStatFew, MemMaxContents, MemCurContents)
  \/ CPUPercent(CpuMaxFew, CpuStatFew)
  \/ MemoryPercent(MemMaxContents, MemCurContents)

SpecMem == Init /\ [][NextMem]_vars
\* ------------------------------------- parseCPUStatUsage on its own
\* The lines of a cpu.stat text: a usage_usec line with its value, a line of
\* another key, an empty line, and the lines that carry the key without
\* being a well-formed "usage_usec <uint>" line
UsageLines == { [k |-> "usage", v |-> u] : u \in 0..MaxUsage }
OtherLines == { [k |-> "other", v |-> 0], [k |-> "empty", v |-> 0] }
BrokenLines == { [k |-> "word", v |-> 0],      \* usage_usec x
                 [k |-> "negative", v |-> 0],  \* usage_usec -1
                 [k |-> "extra", v |-> 0],     \* usage_usec 1 2
                 [k |-> "tab", v |-> 0],       \* usage_usec<TAB>1
                 [k |-> "bare", v |-> 0] }     \* usage_usec

lineText(l) ==
  CASE l.k = "usage" -> <<KeyW, SP, Num(l.v)>>
    [] l.k = "other" -> <<Word, SP, Num(1)>>
    [] l.k = "empty" -> <<>>
    [] l.k = "word" -> <<KeyW, SP, Word>>
    [] l.k = "negative" -> <<KeyW, SP, Num(0 - 1)>>
    [] l.k = "extra" -> <<KeyW, SP, Num(1), SP, Num(2)>>
    [] l.k = "tab" -> <<KeyW, TAB, Num(1)>>
    [] l.k = "bare" -> <<KeyW>>

\* the lines joined by newlines
RECURSIVE statText(_)
statText(ls) ==
  IF ls = <<>> THEN <<>>
  ELSE IF Len(ls) = 1 THEN lineText(ls[1])
  ELSE lineText(ls[1]) \o <<NL>> \o statText(Tail(ls))

\* the texts of at most MaxLines lines, at most one of them carrying the key
StatLines ==
  { ls \in UNION { [1..n -> UsageLines \cup OtherLines \cup BrokenLines] : n \in 0..MaxLines } :
      Cardinality({ i \in DOMAIN ls : ls[i] \notin OtherLines }) <= 1 }

\* parseCPUStatUsage called on a text
ParseCall ==
  \E ls \in StatLines :
    /\ ret' = [NoRet EXCEPT !.op = "parseCPUStatUsage",
                            !.cpuStat = File(statText(ls)),
                            !.cpu.usage = parseCPUStatUsage(statText(ls))]
    /\ UNCHANGED <<lastCPUUsageUsec, lastCPUSampleTime, hasBaseline, mu, clock, ticks,
                   pc, loc, everSampled, okRead, recorded>>

NextParse == ParseCall

SpecParse == Init /\ [][NextParse]_vars

\* ------------------------------------------- calls made concurrently
\* The files the concurrent specification reads
ConcCpuMax == { File(<<Num(1), SP, Num(2)>>), File(<<MaxW, SP, Num(2)>>) }
ConcCpuStat == { NoFile, File(<<KeyW, SP, Num(0)>>), File(<<KeyW, SP, Num(1)>>) }
ConcMemMax == { File(<<Num(2), NL>>) }
ConcMemCur == { NoFile, File(<<Num(1), NL>>) }

ConcTick == ticks < MaxConcTicks /\ Tick

\* a goroutine calls Stats, CPUPercent or MemoryPercent
Call(t) ==
  /\ pc[t] = "idle"
  /\ \E op \in {"Stats", "CPUPercent", "MemoryPercent"} :
       /\ loc' = [loc EXCEPT ![t] = [NoLoc EXCEPT !.op = op]]
       /\ pc' = [pc EXCEPT ![t] = IF op = "MemoryPercent" THEN "memMax" ELSE "lock"]
  /\ UNCHANGED <<lastCPUUsageUsec, lastCPUSampleTime, hasBaseline, mu, clock, ticks, ret,
                 everSampled, okRead, recorded>>

\* Stats and CPUPercent entering without waiting for the mutex
Lock_noWait(t) ==
  /\ pc[t] = "lock"
  /\ mu' = t
  /\ pc' = [pc EXCEPT ![t] = "cpuMax"]
  /\ UNCHANGED <<lastCPUUsageUsec, lastCPUSampleTime, hasBaseline, clock, ticks, ret, loc,
                 everSampled, okRead, recorded>>

\* m.mu.Lock() of Stats and CPUPercent
Lock(t) ==
  /\ pc[t] = "lock"
  /\ mu = 0
  /\ mu' = t
  /\ pc' = [pc EXCEPT ![t] = "cpuMax"]
  /\ UNCHANGED <<lastCPUUsageUsec, lastCPUSampleTime, hasBaseline, clock, ticks, ret, loc,
                 everSampled, okRead, recorded>>

afterCPU(op) == IF op = "Stats" THEN "memMax" ELSE "unlock"
\* the locals of a call once readCPU has returned (percent, limit, err): the
\* locals of readCPU are gone
cpuReturned(l, percent, limit, err) ==
  [NoLoc EXCEPT !.op = l.op,
                !.cpu = [NoCPU EXCEPT !.percent = percent, !.limit = limit, !.err = err]]
afterMem(op) == IF op = "Stats" THEN "unlock" ELSE "return"

\* readCPU, lines 12-40
ReadCPUMax(t) ==
  /\ pc[t] = "cpuMax"
  /\ \E cm \in ConcCpuMax :
       LET lim == readCPULimit(cm)
       IN  /\ loc' = [loc EXCEPT ![t] =
                 IF lim.done THEN cpuReturned(loc[t], lim.percent, lim.limit, lim.err)
                 ELSE [loc[t] EXCEPT !.cpuMax = cm, !.cpu.limit = lim.limit]]
           /\ pc' = [pc EXCEPT ![t] = IF lim.done THEN afterCPU(loc[t].op) ELSE "cpuStat"]
           /\ okRead' = (okRead \/ (lim.done /\ ~lim.err))
  /\ UNCHANGED <<lastCPUUsageUsec, lastCPUSampleTime, hasBaseline, mu, clock, ticks, ret,
                 everSampled, recorded>>

\* readCPU, lines 42-48
ReadCPUStat(t) ==
  /\ pc[t] = "cpuStat"
  /\ \E cs \in ConcCpuStat :
       LET st == readFile(cs)
       IN  /\ loc' = [loc EXCEPT ![t] =
                 IF st.err THEN cpuReturned(loc[t], Zero, loc[t].cpu.limit, TRUE)
                 ELSE [loc[t] EXCEPT !.cpuStat = cs, !.now = clock, !.cpu.sampled = TRUE,
                                     !.cpu.usage = parseCPUStatUsage(st.s)]]
           /\ pc' = [pc EXCEPT ![t] = IF st.err THEN afterCPU(loc[t].op) ELSE "cpuBranch"]
           /\ everSampled' = (everSampled \/ ~st.err)
  /\ UNCHANGED <<lastCPUUsageUsec, lastCPUSampleTime, hasBaseline, mu, clock, ticks, ret,
                 okRead, recorded>>

\* readCPU, lines 50-79 up to the first assignment: the branch is chosen and
\* the percentage computed from the Monitor's fields
CPUBranch(t) ==
  /\ pc[t] = "cpuBranch"
  /\ LET r == sampleCPU(monitor, loc[t].cpu.usage, loc[t].now, loc[t].cpu.limit)
     IN  /\ loc' = [loc EXCEPT ![t] =
               IF r.writes = <<>> THEN cpuReturned(loc[t], r.percent, r.limit, r.err)
               ELSE [loc[t] EXCEPT !.prev = monitor, !.cpu.percent = r.percent,
                                   !.writes = r.writes]]
         /\ pc' = [pc EXCEPT ![t] = IF r.writes = <<>> THEN afterCPU(loc[t].op)
                                     ELSE "cpuWrite"]
         /\ okRead' = TRUE
  /\ UNCHANGED <<lastCPUUsageUsec, lastCPUSampleTime, hasBaseline, mu, clock, ticks, ret,
                 everSampled, recorded>>

\* readCPU, lines 52-54, 60-61, 76-77: one assignment to a field of the Monitor
CPUWrite(t) ==
  /\ pc[t] = "cpuWrite"
  /\ LET m == applyWrites(monitor, <<Head(loc[t].writes)>>)
     IN  /\ lastCPUUsageUsec' = m.lastCPUUsageUsec
         /\ lastCPUSampleTime' = m.lastCPUSampleTime
         /\ hasBaseline' = m.hasBaseline
  /\ recorded' = <<loc[t].cpu.usage, loc[t].now>>
  /\ loc' = [loc EXCEPT ![t] =
       IF Tail(loc[t].writes) = <<>>
       THEN cpuReturned(loc[t], loc[t].cpu.percent, loc[t].cpu.limit, loc[t].cpu.err)
       ELSE [loc[t] EXCEPT !.writes = Tail(loc[t].writes)]]
  /\ pc' = [pc EXCEPT ![t] = IF Tail(loc[t].writes) = <<>> THEN afterCPU(loc[t].op)
                              ELSE "cpuWrite"]
  /\ UNCHANGED <<mu, clock, ticks, ret, everSampled, okRead>>

\* the first step of readMemory, taken by goroutine t
readMemMaxStep(t) ==
  \E mm \in ConcMemMax :
    LET mem == readMemory(mm, NoFile)
        done == readFile(mm).err \/ ~mem.err
    IN  /\ loc' = [loc EXCEPT ![t].memMax = mm, ![t].mem = mem]
        /\ pc' = [pc EXCEPT ![t] = IF done THEN afterMem(loc[t].op) ELSE "memCur"]
        /\ UNCHANGED <<lastCPUUsageUsec, lastCPUSampleTime, hasBaseline, clock, ticks, ret,
                       everSampled, okRead, recorded>>

\* MemoryPercent taking the mutex like Stats and CPUPercent
ReadMemMax_underLock(t) ==
  /\ pc[t] = "memMax"
  /\ IF loc[t].op = "MemoryPercent" THEN mu = 0 /\ mu' = t ELSE UNCHANGED mu
  /\ readMemMaxStep(t)

\* readMemory, lines 6-18
ReadMemMax(t) ==
  /\ pc[t] = "memMax"
  /\ UNCHANGED mu
  /\ readMemMaxStep(t)

\* readMemory over the files of the concurrent specification, tabulated
readMemoryOf == [mm \in ConcMemMax, mc \in ConcMemCur |-> readMemory(mm, mc)]

\* readMemory, lines 20-32
ReadMemCur(t) ==
  /\ pc[t] = "memCur"
  /\ \E mc \in ConcMemCur :
       /\ loc' = [loc EXCEPT ![t].memCur = mc, ![t].mem = readMemoryOf[loc[t].memMax, mc]]
       /\ pc' = [pc EXCEPT ![t] = afterMem(loc[t].op)]
  /\ UNCHANGED <<lastCPUUsageUsec, lastCPUSampleTime, hasBaseline, mu, clock, ticks, ret,
                 everSampled, okRead, recorded>>

\* the deferred m.mu.Unlock() of Stats and CPUPercent
Unlock(t) ==
  /\ pc[t] = "unlock"
  /\ mu' = 0
  /\ pc' = [pc EXCEPT ![t] = "return"]
  /\ UNCHANGED <<lastCPUUsageUsec, lastCPUSampleTime, hasBaseline, clock, ticks, ret, loc,
                 everSampled, okRead, recorded>>

\* the value a call returns, from the locals of the call
returnValue(l) ==
  [stats |-> IF l.op = "Stats"
             THEN [CPUPercent |-> l.cpu.percent, CPULimitCores |-> l.cpu.limit,
                   MemoryPercent |-> l.mem.percent, MemoryBytes |-> l.mem.bytes,
                   MemoryLimitBytes |-> l.mem.limit]
             ELSE ZeroStats,
   pct |-> IF l.op = "CPUPercent" THEN l.cpu.percent
           ELSE IF l.op = "MemoryPercent" THEN l.mem.percent
           ELSE Zero]

\* the call returns returnValue(loc[t]) to the goroutine
Return(t) ==
  /\ pc[t] = "return"
  /\ loc' = [loc EXCEPT ![t] = NoLoc]
  /\ pc' = [pc EXCEPT ![t] = "idle"]
  /\ UNCHANGED <<lastCPUUsageUsec, lastCPUSampleTime, hasBaseline, mu, clock, ticks, ret,
                 everSampled, okRead, recorded>>

Step(t) ==
  \/ Call(t)
  \/ Lock(t)
  \/ ReadCPUMax(t)
  \/ ReadCPUStat(t)
  \/ CPUBranch(t)
  \/ CPUWrite(t)
  \/ ReadMemMax(t)
  \/ ReadMemCur(t)
  \/ Unlock(t)
  \/ Return(t)

NextConc ==
  \/ ConcTick
  \/ \E t \in Threads : Step(t)

SpecConc == Init /\ [][NextConc]_vars
\* =============================================================== claims
\* the last call made in the specifications with one caller
last == ret
IsCPUCall(r) == r.op \in {"Stats", "CPUPercent"}
\* the CPU percentage a Stats or CPUPercent call handed to its caller
ReturnedCPUPercent(r) == IF r.op = "Stats" THEN r.stats.CPUPercent ELSE r.pct
\* a step in which a call was made
CallStep == ret' # ret

\* C1: the first CPU sample of a Monitor (valid limit, readable cpu.stat)
\* returns percent 0 whatever the usage and stores (usage, now) as baseline.
C1_FirstSampleZero ==
  [][ (~everSampled /\ everSampled') =>
        /\ IsCPUCall(ret')
        /\ ReturnedCPUPercent(ret') = Zero
        /\ hasBaseline'
        /\ lastCPUUsageUsec' = ret'.cpu.usage
        /\ lastCPUSampleTime' = ret'.now ]_vars

C1_Witness ==
  /\ IsCPUCall(last) /\ last.cpu.sampled /\ ~last.prev.hasBaseline
  /\ last.cpuStat = File(<<KeyW, SP, Num(0)>>)
  /\ ReturnedCPUPercent(last) = Zero /\ hasBaseline /\ lastCPUUsageUsec = 0

\* C2: a sample taken with a baseline and elapsedMicros = 0 returns percent 0.
C2_ZeroElapsedZeroPercent ==
  (/\ IsCPUCall(last) /\ last.cpu.sampled /\ last.prev.hasBaseline
   /\ Microseconds(last.now - last.prev.lastCPUSampleTime) = 0)
  => ReturnedCPUPercent(last) = Zero

\* the percentage of a delta sample taken by the call r from the stored (u0, t0)
DeltaPercent(r, u0, t0) ==
  FMul(FDiv(FDiv(F(r.cpu.usage - u0), F(Microseconds(r.now - t0))), r.cpu.limit), F(100))

\* C3: with a baseline, a sample whose usage is below the stored counter
\* returns percent 0 and overwrites the stored (counter, time) with the new
\* sample; the sample after it is measured from the reset value.
C3_CounterReset ==
  [][ /\ (/\ CallStep /\ IsCPUCall(ret') /\ ret'.cpu.sampled
          /\ hasBaseline /\ ret'.cpu.usage < lastCPUUsageUsec)
         => /\ ReturnedCPUPercent(ret') = Zero
            /\ lastCPUUsageUsec' = ret'.cpu.usage
            /\ lastCPUSampleTime' = ret'.now
            /\ hasBaseline'
      /\ (/\ CallStep /\ IsCPUCall(ret') /\ ret'.cpu.sampled
          /\ IsCPUCall(last) /\ last.cpu.sampled /\ last.prev.hasBaseline
          /\ last.cpu.usage < last.prev.lastCPUUsageUsec
          /\ ret'.cpu.usage >= last.cpu.usage
          /\ Microseconds(ret'.now - last.now) > 0)
         => ReturnedCPUPercent(ret') = DeltaPercent(ret', last.cpu.usage, last.now)
    ]_vars

C3_Witness ==
  /\ IsCPUCall(last) /\ last.cpu.sampled /\ last.prev.hasBaseline
  /\ last.cpu.usage < last.prev.lastCPUUsageUsec
  /\ last.now > last.prev.lastCPUSampleTime
  /\ lastCPUUsageUsec = last.cpu.usage /\ lastCPUSampleTime = last.now

\* the non-space tokens of the text of a file
Tokens(f) == SelectSeq(f.data, LAMBDA it : ~IsSpace(it))
\* cpu.max sets no limit: wrong token count, quota "max", quota unparsable
\* or <= 0, period unparsable or 0
SetsNoCPULimit(f) ==
  /\ ~f.err
  /\ \/ Len(Tokens(f)) # 2
     \/ Tokens(f)[1].k # "int"
     \/ Tokens(f)[1].v <= 0
     \/ Tokens(f)[2].k # "int"
     \/ Tokens(f)[2].v = 0

\* C5: when cpu.max sets no limit the CPU read returns (0, 0) and no error,
\* whatever the session state.
C5_NoLimitZero ==
  (IsCPUCall(last) /\ SetsNoCPULimit(last.cpuMax))
  => /\ last.cpu.percent = Zero /\ last.cpu.limit = Zero /\ ~last.cpu.err
     /\ ReturnedCPUPercent(last) = Zero
     /\ (last.op = "Stats" => last.stats.CPULimitCores = Zero)

C5_Witness ==
  /\ last.op = "Stats" /\ last.cpuMax = File(<<Num(1), SP, Num(0)>>)
  /\ last.prev.hasBaseline /\ last.stats.CPULimitCores = Zero

\* C6 as stated: hasBaseline is true iff some CPU read completed without error.
C6_BaselineIffOkRead == hasBaseline <=> okRead

\* C6 amended: hasBaseline is true iff some CPU read took a sample, that is,
\* read a cpu.max with a valid limit and a readable cpu.stat.
C6_BaselineIffSampled == hasBaseline <=> everSampled

C6_Witness == hasBaseline /\ everSampled /\ IsCPUCall(last) /\ ~last.cpu.sampled /\ ~last.cpu.err

\* C9: when a file of a sub-read of Stats cannot be read, every Stats field
\* of that sub-read is 0.
C9_UnreadableAllZero ==
  last.op = "Stats" =>
    /\ (last.cpu.err => last.stats.CPUPercent = Zero /\ last.stats.CPULimitCores = Zero)
    /\ (last.mem.err => /\ last.stats.MemoryPercent = Zero
                        /\ last.stats.MemoryBytes = 0
                        /\ last.stats.MemoryLimitBytes = 0)
\* goroutine t is between m.mu.Lock() and the deferred m.mu.Unlock()
InLockedRegion(t) ==
  \/ pc[t] \in {"cpuMax", "cpuStat", "cpuBranch", "cpuWrite", "unlock"}
  \/ (loc[t].op = "Stats" /\ pc[t] \in {"memMax", "memCur"})
\* goroutine t is inside the CPU sampler
InSampler(t) == pc[t] \in {"cpuMax", "cpuStat", "cpuBranch", "cpuWrite"}

\* C4: at most one goroutine is inside the CPU sampler, it holds the mutex,
\* and what it stores is what it computed from the fields it read: no other
\* goroutine changed them between its read and its writes.
C4_SamplerSerialized ==
  /\ \A t \in Threads : InLockedRegion(t) => mu = t
  /\ Cardinality({t \in Threads : InSampler(t)}) <= 1
  /\ \A t \in Threads : pc[t] = "cpuWrite" =>
        applyWrites(monitor, loc[t].writes) =
          applyWrites(loc[t].prev,
                      sampleCPU(loc[t].prev, loc[t].cpu.usage, loc[t].now,
                                loc[t].cpu.limit).writes)

C4_Witness ==
  \E t1, t2 \in Threads :
    /\ pc[t1] = "cpuWrite" /\ loc[t1].op = "Stats" /\ loc[t1].prev.hasBaseline
    /\ pc[t2] = "lock" /\ loc[t2].op = "CPUPercent"

\* C7: once hasBaseline is true it stays true.
C7_BaselineStays == [][hasBaseline => hasBaseline']_vars

C7_Witness ==
  /\ hasBaseline
  /\ \E t \in Threads :
       /\ pc[t] = "cpuWrite" /\ loc[t].cpu.sampled /\ loc[t].prev.hasBaseline
       /\ loc[t].cpu.usage < loc[t].prev.lastCPUUsageUsec

\* goroutine t has stored the counter of its sample and not yet the time
MidUpdate(t) ==
  /\ pc[t] = "cpuWrite"
  /\ loc[t].writes # <<>>
  /\ Head(loc[t].writes)[1] = "lastCPUSampleTime"

\* C8: the stored counter and time are those of one sample, except while one
\* goroutine is between the two assignments; that goroutine holds the mutex
\* and no other goroutine is then at a place that reads or writes the fields.
C8_PairUpdatedTogether ==
  /\ (\A t \in Threads : ~MidUpdate(t))
       => <<lastCPUUsageUsec, lastCPUSampleTime>> = recorded
  /\ \A t \in Threads : MidUpdate(t) =>
        /\ mu = t
        /\ \A o \in Threads \ {t} : pc[o] \notin {"cpuBranch", "cpuWrite"}

C8_Witness ==
  /\ mu = 0 /\ hasBaseline
  /\ <<lastCPUUsageUsec, lastCPUSampleTime>> = recorded
  /\ lastCPUSampleTime > 0
  /\ \A t \in Threads : pc[t] = "idle"

\* goroutine t is inside a MemoryPercent call
InMemoryPercent(t) == loc[t].op = "MemoryPercent" /\ pc[t] \in {"memMax", "memCur"}

\* C10: MemoryPercent changes no session field, never takes or waits for
\* the mutex, and two MemoryPercent calls that read the same contents
\* return the same value.  (Every state of SpecConc has a step leaving it,
\* so the conditions on the state before a step cover every reachable state.)
C10_MemoryStateless ==
  [][\A t \in Threads :
       /\ (InMemoryPercent(t) /\ pc'[t] # pc[t]) =>
             UNCHANGED <<lastCPUUsageUsec, lastCPUSampleTime, hasBaseline, mu>>
       /\ loc[t].op = "MemoryPercent" => mu # t
       /\ InMemoryPercent(t) => ENABLED (ReadMemMax(t) \/ ReadMemCur(t))
       /\ \A o \in Threads :
            (/\ loc[t].op = "MemoryPercent" /\ pc[t] = "return"
             /\ loc[o].op = "MemoryPercent" /\ pc[o] = "return"
             /\ loc[t].memMax = loc[o].memMax /\ loc[t].memCur = loc[o].memCur)
            => returnValue(loc[t]) = returnValue(loc[o])]_vars

C10_Witness ==
  \E t1, t2 \in Threads :
    /\ mu = t1 /\ pc[t1] = "cpuWrite"
    /\ loc[t2].op = "MemoryPercent" /\ pc[t2] = "return"
    /\ returnValue(loc[t2]).pct = F(50)

\* cpu.max holds two integers, quota > 0 and period > 0
HasPositiveLimit(f) ==
  /\ ~f.err /\ Len(Tokens(f)) = 2
  /\ Tokens(f)[1].k = "int" /\ Tokens(f)[1].v > 0
  /\ Tokens(f)[2].k = "int" /\ Tokens(f)[2].v > 0

\* the float x is the fraction q / p (p > 0)
IsFraction(x, q, p) == x.d > 0 /\ x.n * p = q * x.d

\* C11: with quota > 0, period > 0 and a readable cpu.stat the reported
\* limit in cores is the fraction quota / period, on the first call and on
\* every later one.
C11_LimitIsQuotaOverPeriod ==
  (IsCPUCall(last) /\ HasPositiveLimit(last.cpuMax) /\ ~last.cpuStat.err)
  => /\ IsFraction(last.cpu.limit, Tokens(last.cpuMax)[1].v, Tokens(last.cpuMax)[2].v)
     /\ (last.op = "Stats" => last.stats.CPULimitCores = last.cpu.limit)

C11_Witness ==
  /\ last.op = "Stats" /\ last.cpuMax = File(<<Num(1), SP, Num(2)>>)
  /\ last.cpu.sampled /\ last.prev.hasBaseline
  /\ last.stats.CPULimitCores = [n |-> 1, d |-> 2]

IsMemCall(r) == r.op \in {"Stats", "MemoryPercent"}
\* the memory percentage a Stats or MemoryPercent call handed to its caller
ReturnedMemoryPercent(r) == IF r.op = "Stats" THEN r.stats.MemoryPercent ELSE r.pct
\* the file holds one unsigned integer and nothing else but surrounding space
IsUint(f) == ~f.err /\ Len(Tokens(f)) = 1 /\ Tokens(f)[1].k = "int" /\ Tokens(f)[1].v >= 0
UintOf(f) == Tokens(f)[1].v

\* C12: with an unsigned integer limit (above 0) in memory.max and an
\* unsigned integer usage in memory.current, the memory read returns
\* usage / limit x 100, usage and limit.
C12_MemoryPercentIsRatio ==
  (IsMemCall(last) /\ IsUint(last.memMax) /\ UintOf(last.memMax) > 0 /\ IsUint(last.memCur))
  => /\ IsFraction(last.mem.percent, 100 * UintOf(last.memCur), UintOf(last.memMax))
     /\ last.mem.bytes = UintOf(last.memCur)
     /\ last.mem.limit = UintOf(last.memMax)
     /\ ~last.mem.err
     /\ ReturnedMemoryPercent(last) = last.mem.percent
     /\ (last.op = "Stats" => /\ last.stats.MemoryBytes = UintOf(last.memCur)
                             /\ last.stats.MemoryLimitBytes = UintOf(last.memMax))

C12_Witness ==
  /\ last.op = "Stats" /\ last.memMax = File(<<Num(4)>>) /\ last.memCur = File(<<Num(1), NL>>)
  /\ last.stats.MemoryPercent = F(25)
  /\ last.stats.MemoryBytes = 1 /\ last.stats.MemoryLimitBytes = 4

\* C13: memory.max "max" or not an unsigned integer gives percent 0, bytes 0,
\* limit 0 and no error whatever memory.current holds; a limit that parses
\* with a memory.current that does not gives percent 0, bytes 0 and the limit.
C13_NoMemoryLimitZero ==
  IsMemCall(last) =>
    /\ (~last.memMax.err /\ ~IsUint(last.memMax))
         => /\ last.mem = [percent |-> Zero, bytes |-> 0, limit |-> 0, err |-> FALSE]
            /\ ReturnedMemoryPercent(last) = Zero
            /\ (last.op = "Stats" => /\ last.stats.MemoryBytes = 0
                                    /\ last.stats.MemoryLimitBytes = 0)
    /\ (IsUint(last.memMax) /\ ~last.memCur.err /\ ~IsUint(last.memCur))
         => /\ last.mem = [percent |-> Zero, bytes |-> 0, limit |-> UintOf(last.memMax),
                           err |-> FALSE]
            /\ ReturnedMemoryPercent(last) = Zero
            /\ (last.op = "Stats" => /\ last.stats.MemoryBytes = 0
                                    /\ last.stats.MemoryLimitBytes = UintOf(last.memMax))

C13_Witness ==
  /\ last.op = "MemoryPercent" /\ last.memMax = File(<<MaxW, NL>>)
  /\ last.memCur = File(<<Num(2)>>) /\ last.pct = Zero /\ last.mem.limit = 0

\* C14: parseCPUStatUsage returns the value of the "usage_usec <uint>" line
\* wherever it stands among the other lines, and 0 when the text is empty,
\* has no such line, or has the key with a malformed value.
C14_ParseUsage ==
  \A ls \in StatLines :
    (last.op = "parseCPUStatUsage" /\ last.cpuStat = File(statText(ls)))
    => /\ last.cpu.usage \in Nat
       /\ \A i \in DOMAIN ls : ls[i].k = "usage" => last.cpu.usage = ls[i].v
       /\ (\A i \in DOMAIN ls : ls[i].k # "usage") => last.cpu.usage = 0

C14_Witness ==
  /\ last.op = "parseCPUStatUsage"
  /\ last.cpuStat = File(<<Word, SP, Num(1), NL, KeyW, SP, Num(MaxUsage), NL, Word, SP, Num(1)>>)
  /\ last.cpu.usage = MaxUsage

\* the last call took a CPU sample (valid limit, readable cpu.stat)
TookSample(r) == IsCPUCall(r) /\ r.cpu.sampled
\* the sample found a baseline, a counter that did not decrease and no elapsed time
SameInstant(r) ==
  /\ r.prev.hasBaseline
  /\ r.cpu.usage >= r.prev.lastCPUUsageUsec
  /\ r.now = r.prev.lastCPUSampleTime

\* C15 as stated: every CPU sample leaves the stored (counter, time) equal
\* to the (usage, now) of that sample.
C15_AlwaysStored ==
  TookSample(last) =>
    /\ lastCPUUsageUsec = last.cpu.usage
    /\ lastCPUSampleTime = last.now

\* C15 amended: every CPU sample leaves the stored (counter, time) equal to
\* its (usage, now), except a sample that finds a baseline, a counter that
\* did not decrease and an elapsed time of 0: that one leaves both fields as
\* they were.
C15_StoredUnlessSameInstant ==
  TookSample(last) =>
    IF SameInstant(last)
    THEN /\ lastCPUUsageUsec = last.prev.lastCPUUsageUsec
         /\ lastCPUSampleTime = last.prev.lastCPUSampleTime
    ELSE /\ lastCPUUsageUsec = last.cpu.usage
         /\ lastCPUSampleTime = last.now

C15_Witness ==
  /\ TookSample(last) /\ SameInstant(last)
  /\ last.cpu.usage > last.prev.lastCPUUsageUsec
  /\ lastCPUUsageUsec = last.prev.lastCPUUsageUsec

\* C16: with a baseline, usage >= lastUsage and elapsed > 0 the sample
\* returns ((usage - lastUsage) / elapsedMicros) / limitCores x 100, a
\* number, measured from the stored sample.
C16_DeltaPercent ==
  (/\ TookSample(last) /\ last.prev.hasBaseline
   /\ last.cpu.usage >= last.prev.lastCPUUsageUsec
   /\ last.now > last.prev.lastCPUSampleTime)
  => LET pct == ReturnedCPUPercent(last)
         du == last.cpu.usage - last.prev.lastCPUUsageUsec
         us == Microseconds(last.now - last.prev.lastCPUSampleTime)
     IN  /\ IsFinite(pct)
         /\ pct.n * last.cpu.limit.n * us = 100 * du * pct.d * last.cpu.limit.d

\* C17: when cpu.stat cannot be read after cpu.max gave a valid limit, readCPU
\* returns percent 0, the limit quota / period and the error; when
\* memory.current cannot be read after memory.max gave a limit, readMemory
\* returns percent 0, bytes 0, that limit and the error.
C17_PartialLimitOnFailure ==
  /\ (IsCPUCall(last) /\ HasPositiveLimit(last.cpuMax) /\ last.cpuStat.err)
       => /\ last.cpu.percent = Zero
          /\ IsFraction(last.cpu.limit, Tokens(last.cpuMax)[1].v, Tokens(last.cpuMax)[2].v)
          /\ last.cpu.err
          /\ ~last.cpu.sampled
  /\ (IsMemCall(last) /\ IsUint(last.memMax) /\ last.memCur.err)
       => last.mem = [percent |-> Zero, bytes |-> 0,
                      limit |-> UintOf(last.memMax), err |-> TRUE]

C17_Witness ==
  /\ last.op = "Stats"
  /\ HasPositiveLimit(last.cpuMax) /\ last.cpuStat.err
  /\ last.cpu.err /\ last.cpu.limit = [n |-> 1, d |-> 2]
  /\ IsUint(last.memMax) /\ last.memCur.err
  /\ last.mem.err /\ last.mem.limit > 0

\* C18: the CPU percent and the CPU limit in cores that Stats and CPUPercent
\* return are never negative, whatever cpu.max and cpu.stat hold.
C18_CPUNeverNegative ==
  IsCPUCall(last) => /\ ~FLess(ReturnedCPUPercent(last), Zero)
                     /\ ~FLess(last.cpu.limit, Zero)

\* C19: for every memory.max accepted as a limit and every memory.current,
\* the MemoryPercent returned is a finite number, at least 0.
C19_MemoryPercentFinite ==
  (IsMemCall(last) /\ IsUint(last.memMax))
    => /\ IsFinite(ReturnedMemoryPercent(last))
       /\ ~FLess(ReturnedMemoryPercent(last), Zero)

\* C20: a CPU read that ends before sampling (cpu.max unreadable or setting
\* no limit, or cpu.stat unreadable) leaves lastCPUUsageUsec,
\* lastCPUSampleTime and hasBaseline unchanged, and a sample taken with a
\* baseline measures from the last pair that was recorded.
EndsBeforeSampling(r) ==
  IsCPUCall(r) /\ (r.cpuMax.err \/ SetsNoCPULimit(r.cpuMax) \/ r.cpuStat.err)

C20_FailedReadKeepsSample ==
  [][/\ (CallStep /\ EndsBeforeSampling(ret'))
          => /\ UNCHANGED <<lastCPUUsageUsec, lastCPUSampleTime, hasBaseline>>
             /\ ~ret'.cpu.sampled
     /\ (CallStep /\ TookSample(ret') /\ hasBaseline)
          => /\ ret'.prev = monitor
             /\ <<ret'.prev.lastCPUUsageUsec, ret'.prev.lastCPUSampleTime>> = recorded
    ]_vars

C20_Witness ==
  /\ EndsBeforeSampling(last)
  /\ HasPositiveLimit(last.cpuMax) /\ last.cpuStat.err
  /\ last.prev.hasBaseline /\ hasBaseline
  /\ last.now > last.prev.lastCPUSampleTime
  /\ last.prev.lastCPUUsageUsec > 0
  /\ <<lastCPUUsageUsec, lastCPUSampleTime>> = recorded
  /\ lastCPUSampleTime = last.prev.lastCPUSampleTime

\* C21: of the calls that several goroutines make concurrently on a new
\* Monitor, exactly one takes the baseline branch: a call takes it only while
\* hasBaseline is false and no other call is inside it, hasBaseline goes from
\* false to true by that call alone and never back, and a call that chooses
\* its branch once hasBaseline is true goes through the reset or delta branch.
InBaselineBranch(l, p) ==
  p = "cpuWrite" /\ l.writes # <<>> /\ l.writes[Len(l.writes)] = <<"hasBaseline", TRUE>>

BranchStep(t) == pc[t] = "cpuBranch" /\ pc'[t] # "cpuBranch"

C21_OneBaselineBranch ==
  [][/\ \A t \in Threads :
          BranchStep(t) =>
            IF hasBaseline
            THEN /\ ~InBaselineBranch(loc'[t], pc'[t])
                 /\ \A u \in Threads : ~InBaselineBranch(loc[u], pc[u])
            ELSE /\ InBaselineBranch(loc'[t], pc'[t])
                 /\ \A u \in Threads \ {t} : ~InBaselineBranch(loc[u], pc[u])
     /\ (~hasBaseline /\ hasBaseline') =>
          /\ Cardinality({t \in Threads : InBaselineBranch(loc[t], pc[t])}) = 1
          /\ \A t \in Threads : InBaselineBranch(loc[t], pc[t]) => pc'[t] # "cpuWrite"
     /\ hasBaseline => hasBaseline'
    ]_vars

C21_Witness ==
  \E t1, t2 \in Threads :
    /\ t1 # t2 /\ clock = 0 /\ hasBaseline
    /\ pc[t1] = "return" /\ loc[t1].op = "CPUPercent"
    /\ loc[t1].cpu.percent = Zero /\ ~loc[t1].cpu.err
    /\ pc[t2] = "cpuWrite" /\ loc[t2].op = "Stats"
    /\ loc[t2].prev.hasBaseline /\ ~InBaselineBranch(loc[t2], pc[t2])
    /\ loc[t2].prev.lastCPUSampleTime = 0
====
